---------------------------- MODULE Spec2Model ----------------------------
(***************************************************************************)
(* HerAI (src/main.py) and its process-wide LLM handle                     *)
(* (src/utils/llm_config.py).                                              *)
(*                                                                         *)
(* Text is a sequence of one-character strings, so that substring tests,   *)
(* lower-casing, replacement and trimming are computed character by        *)
(* character as Python computes them.                                      *)
(***************************************************************************)
EXTENDS Integers, Sequences, FiniteSets, TLC

VARIABLES
    groq_available,  \* llm_config.GROQ_AVAILABLE (set at import)
    env_key,         \* os.getenv("GROQ_API_KEY")
    _llm_config,     \* the module global: <<>> for None, else <<LLMConfig>>
    configs_built,   \* how many times LLMConfig(...) has been constructed
    chatgroq_calls,  \* how many times ChatGroq(...) has been called
    llm_returns,     \* each get_llm_instance call so far: its argument and result
    app,             \* the HerAI instance: <<>> before construction
    chat_pc,         \* where chat() is
    line,            \* the line input() returned last
    lines_read,      \* input() calls chat() has made
    reports,         \* errors chat() has caught and printed, by where they
                     \* came from: process_message or input()
    message,         \* process_message's argument
    caller,          \* who called the function that is running
    pc,              \* where process_message is
    log,             \* collaborator calls made by the running call
    mood,            \* process_message's local mood
    mood_emoji,      \* process_message's local mood_emoji
    task_type,       \* process_message's local task_type
    memories,        \* process_message's local memories
    response,        \* process_message's local response
    returned,        \* what the last collaborator call returned
    result,          \* <<>>, or <<the record process_message returned>>
    error            \* the exception the call ended with (None if none)

llmVars  == <<groq_available, env_key, _llm_config, configs_built, chatgroq_calls,
              llm_returns, app>>
chatVars == <<chat_pc, line, lines_read, reports>>
procVars == <<message, caller, pc, log, mood, mood_emoji, task_type, memories,
              response, returned, result, error>>
vars     == <<llmVars, chatVars, procVars>>

-----------------------------------------------------------------------------
(* Bounds of the model *)

MaxPieces == 2      \* pieces concatenated into one input text
MaxSteps  == 2      \* steps of a date plan
MaxCalls  == 1      \* direct get_llm_instance calls besides HerAI's own
MaxLines  == 2      \* lines one chat() session reads

-----------------------------------------------------------------------------
(* Python values *)

None == "None"
NoText == <<>>

UpperChars == <<"A","B","C","D","E","F","G","H","I","J","K","L","M","N","O","P","Q","R","S","T","U","V","W","X","Y","Z">>
LowerChars == <<"a","b","c","d","e","f","g","h","i","j","k","l","m","n","o","p","q","r","s","t","u","v","w","x","y","z">>

\* the characters str.strip() removes, among those the inputs use
Whitespace == {" ", "\t", "\n"}

Punctuation == {",", "!", ".", "'"}

LowerChar(c) ==
    IF \E i \in 1..Len(UpperChars) : UpperChars[i] = c
    THEN LowerChars[CHOOSE i \in 1..Len(UpperChars) : UpperChars[i] = c]
    ELSE c

\* str.lower()
lower(s) == [i \in 1..Len(s) |-> LowerChar(s[i])]

\* sub in s
Contains(sub, s) ==
    \E i \in 0..(Len(s) - Len(sub)) : SubSeq(s, i + 1, i + Len(sub)) = sub

\* str.strip()
strip(s) ==
    LET keep == {i \in 1..Len(s) : s[i] \notin Whitespace}
    IN  IF keep = {} THEN <<>>
        ELSE SubSeq(s, CHOOSE i \in keep : \A j \in keep : i <= j,
                       CHOOSE i \in keep : \A j \in keep : i >= j)

RECURSIVE ReplaceFrom(_, _, _)
ReplaceFrom(s, old, i) ==
    IF i > Len(s) THEN <<>>
    ELSE IF i + Len(old) - 1 <= Len(s) /\ SubSeq(s, i, i + Len(old) - 1) = old
         THEN ReplaceFrom(s, old, i + Len(old))
         ELSE <<s[i]>> \o ReplaceFrom(s, old, i + 1)

\* str.replace(old, ''): left to right, non-overlapping, one pass
replace(s, old) == ReplaceFrom(s, old, 1)

RECURSIVE Join(_)
Join(ps) == IF ps = <<>> THEN <<>> ELSE Head(ps) \o Join(Tail(ps))

SeqsUpTo(S, n) == UNION {[1..k -> S] : k \in 0..n}

-----------------------------------------------------------------------------
(* HerAI._detect_task_type *)

PoemPhrases == {
    <<"w","r","i","t","e"," ","a"," ","p","o","e","m">>,
    <<"p","o","e","m"," ","f","o","r">>,
    <<"m","a","k","e"," ","a"," ","p","o","e","m">>}
JokePhrases == {
    <<"w","r","i","t","e"," ","a"," ","j","o","k","e">>,
    <<"t","e","l","l"," ","m","e"," ","a"," ","j","o","k","e">>,
    <<"j","o","k","e"," ","a","b","o","u","t"," ","y","a","m","r","a","j">>,
    <<"m","a","k","e"," ","f","u","n"," ","o","f"," ","y","o","u","r","s","e","l","f">>}
StoryPhrases == {
    <<"w","r","i","t","e"," ","a"," ","s","t","o","r","y">>,
    <<"t","e","l","l"," ","m","e"," ","a"," ","s","t","o","r","y">>}
LetterPhrases == {
    <<"w","r","i","t","e"," ","a"," ","l","e","t","t","e","r">>,
    <<"l","o","v","e"," ","l","e","t","t","e","r">>}
DatePlanPhrases == {
    <<"p","l","a","n"," ","a"," ","d","a","t","e">>,
    <<"d","a","t","e"," ","i","d","e","a">>,
    <<"w","h","a","t"," ","s","h","o","u","l","d"," ","w","e"," ","d","o">>}
GoodMorningPhrases == {
    <<"g","o","o","d"," ","m","o","r","n","i","n","g">>,
    <<"m","o","r","n","i","n","g">>}
GoodNightPhrases == {
    <<"g","o","o","d"," ","n","i","g","h","t">>,
    <<"n","i","g","h","t">>}
ApologyPhrases == {
    <<"s","o","r","r","y">>,
    <<"a","p","o","l","o","g","i","z","e">>,
    <<"m","y"," ","b","a","d">>}

\* any(word in text for word in words)
AnyIn(words, text) == \E word \in words : Contains(word, text)

\* _detect_task_type with the good_night rule tested before good_morning
detect_task_type_night_first(msg) ==
    LET message_lower == lower(msg)
    IN  IF AnyIn(PoemPhrases, message_lower) THEN "poem"
        ELSE IF AnyIn(JokePhrases, message_lower) THEN "joke"
        ELSE IF AnyIn(StoryPhrases, message_lower) THEN "story"
        ELSE IF AnyIn(LetterPhrases, message_lower) THEN "letter"
        ELSE IF AnyIn(DatePlanPhrases, message_lower) THEN "date_plan"
        ELSE IF AnyIn(GoodNightPhrases, message_lower) THEN "good_night"
        ELSE IF AnyIn(GoodMorningPhrases, message_lower) THEN "good_morning"
        ELSE IF AnyIn(ApologyPhrases, message_lower) THEN "apology"
        ELSE None

_detect_task_type(msg) ==
    LET message_lower == lower(msg)
    IN  IF AnyIn(PoemPhrases, message_lower) THEN "poem"
        ELSE IF AnyIn(JokePhrases, message_lower) THEN "joke"
        ELSE IF AnyIn(StoryPhrases, message_lower) THEN "story"
        ELSE IF AnyIn(LetterPhrases, message_lower) THEN "letter"
        ELSE IF AnyIn(DatePlanPhrases, message_lower) THEN "date_plan"
        ELSE IF AnyIn(GoodMorningPhrases, message_lower) THEN "good_morning"
        ELSE IF AnyIn(GoodNightPhrases, message_lower) THEN "good_night"
        ELSE IF AnyIn(ApologyPhrases, message_lower) THEN "apology"
        ELSE None

-----------------------------------------------------------------------------
(* Collaborators (the agents package): what they are given and hand back.   *)
(* Each call either returns one of these values or raises.                  *)

Moods == {"happy", "sad", "stressed", "angry", "romantic", "neutral"}
Glyphs == {"glyph_a", "glyph_b"}

\* prose a generator returns
GeneratedTexts == {<<"x">>, <<"y", "!">>}

PlanSteps == {<<"A">>, <<"B">>}
PlanSuggestions == {<<>>, << <<"S">> >>, << <<"S">>, <<"U">> >>, << <<"U">>, <<"S">> >>}

\* what surprise_agent.plan_virtual_date returns: with or without the
\* optional key 'suggestions'
Plans ==
    {[title |-> <<"T">>, description |-> <<"D">>, steps |-> st, suggestions |-> sg] :
        st \in SeqsUpTo(PlanSteps, MaxSteps), sg \in PlanSuggestions}
    \cup
    {[title |-> <<"T">>, description |-> <<"D">>, steps |-> st] :
        st \in SeqsUpTo(PlanSteps, MaxSteps)}

Call(callee, args) == [callee |-> callee, args |-> args]

\* a call as the log keeps it: with how it ended, "returned" or "raised"
Logged(call, outcome) ==
    [callee |-> call.callee, args |-> call.args, outcome |-> outcome]

RaisedBy(call) == "raised by " \o call.callee

-----------------------------------------------------------------------------
(* HerAI._handle_task *)

Digits == <<"0","1","2","3","4","5","6","7","8","9">>

\* the marker character U+1F4A1 of the tip line, as one character
TipMarker == "(bulb)"

RECURSIVE str(_)
\* f"{i}" for an integer i >= 0
str(n) == IF n < 10 THEN <<Digits[n + 1]>>
          ELSE str(n \div 10) \o <<Digits[(n % 10) + 1]>>

RECURSIVE NumberedSteps(_, _)
\* for i, step in enumerate(steps, start): response += f"{i}. {step}\n"
NumberedSteps(steps, i) ==
    IF steps = <<>> THEN <<>>
    ELSE str(i) \o <<".", " ">> \o Head(steps) \o <<"\n">>
         \o NumberedSteps(Tail(steps), i + 1)

\* date_plan.get('suggestions') is truthy
HasSuggestions(date_plan) ==
    "suggestions" \in DOMAIN date_plan /\ date_plan.suggestions # <<>>

\* RenderDatePlan numbering the steps from 0 and taking the last suggestion
RenderDatePlan_from_zero(date_plan) ==
    LET response2 == date_plan.title \o <<"\n", "\n">> \o date_plan.description
                     \o <<"\n", "\n">>
                     \o <<"H","e","r","e","'","s"," ","h","o","w"," ","w","e"," ","c","a","n"," ","d","o"," ","i","t",":","\n">>
                     \o NumberedSteps(date_plan.steps, 0)
    IN  IF HasSuggestions(date_plan)
        THEN response2 \o <<"\n", TipMarker, " ", "T", "i", "p", ":", " ">>
                       \o date_plan.suggestions[Len(date_plan.suggestions)]
        ELSE response2

RenderDatePlan(date_plan) ==
    LET response0 == date_plan.title \o <<"\n", "\n">> \o date_plan.description
                     \o <<"\n", "\n">>
        response1 == response0 \o <<"H","e","r","e","'","s"," ","h","o","w"," ","w","e"," ","c","a","n"," ","d","o"," ","i","t",":","\n">>
        response2 == response1 \o NumberedSteps(date_plan.steps, 1)
    IN  IF HasSuggestions(date_plan)
        THEN response2 \o <<"\n", TipMarker, " ", "T", "i", "p", ":", " ">>
                       \o date_plan.suggestions[1]
        ELSE response2

PoemTheme(msg) ==
    IF Contains(<<"m","i","s","s">>, lower(msg)) THEN "missing"
    ELSE IF \/ Contains(<<"t","h","a","n","k">>, lower(msg))
            \/ Contains(<<"a","p","p","r","e","c","i","a","t","e">>, lower(msg))
         THEN "appreciation"
         ELSE "love"

\* ApologyContext trimming punctuation as well as whitespace
ApologyContext_strip_punct(msg) ==
    LET s == replace(replace(msg, <<"s","o","r","r","y">>),
                     <<"a","p","o","l","o","g","i","z","e">>)
        keep == {i \in 1..Len(s) : s[i] \notin Whitespace \cup Punctuation}
    IN  IF keep = {} THEN <<>>
        ELSE SubSeq(s, CHOOSE i \in keep : \A j \in keep : i <= j,
                       CHOOSE i \in keep : \A j \in keep : i >= j)

ApologyContext(msg) ==
    strip(replace(replace(msg, <<"s","o","r","r","y">>),
                  <<"a","p","o","l","o","g","i","z","e">>))

\* HandleTaskCallee with the good_night branch calling the morning greeting
HandleTaskCallee_greeting_mixup(msg, tag, md) ==
    IF tag = "poem" THEN Call("romantic_agent.generate_poem", <<PoemTheme(msg)>>)
    ELSE IF tag = "joke"
         THEN Call("romantic_agent.generate_joke_about_yamraj", <<msg>>)
    ELSE IF tag = "date_plan" THEN Call("surprise_agent.plan_virtual_date", <<msg>>)
    ELSE IF tag \in {"good_morning", "good_night"}
         THEN Call("romantic_agent.generate_good_morning", <<>>)
    ELSE IF tag = "apology"
         THEN Call("romantic_agent.generate_apology", <<ApologyContext(msg)>>)
    ELSE Call("romantic_agent.handle_task", <<msg, tag>>)

\* The one collaborator call _handle_task makes for (message, task_type, mood)
HandleTaskCallee(msg, tag, md) ==
    IF tag = "poem" THEN Call("romantic_agent.generate_poem", <<PoemTheme(msg)>>)
    ELSE IF tag = "joke"
         THEN Call("romantic_agent.generate_joke_about_yamraj", <<msg>>)
    ELSE IF tag = "date_plan" THEN Call("surprise_agent.plan_virtual_date", <<msg>>)
    ELSE IF tag = "good_morning" THEN Call("romantic_agent.generate_good_morning", <<>>)
    ELSE IF tag = "good_night" THEN Call("romantic_agent.generate_good_night", <<>>)
    ELSE IF tag = "apology"
         THEN Call("romantic_agent.generate_apology", <<ApologyContext(msg)>>)
    ELSE Call("romantic_agent.handle_task", <<msg, tag>>)

\* the values that call can return
HandleTaskReturns(tag) == IF tag = "date_plan" THEN Plans ELSE GeneratedTexts

\* what _handle_task returns once that call has returned ret
_handle_task(msg, tag, md, ret) ==
    IF tag = "date_plan" THEN RenderDatePlan(ret) ELSE ret

-----------------------------------------------------------------------------
(* utils/llm_config.py *)

\* bool(x) of an optional string
Truthy(x) == x \notin {None, ""}

\* the n-th ChatGroq object the process has built, made with api_key
Handle(n, api_key) == "ChatGroq#" \o Digits[n + 1] \o "(" \o api_key \o ")"

\* LLMConfig.__init__ that calls _initialize_llm whenever Groq is importable
LLMConfig_no_key_check(api_key, chatgroq_raises) ==
    LET key == IF Truthy(api_key) THEN api_key ELSE env_key
        initialize == groq_available
    IN  [api_key |-> key,
         llm |-> IF initialize /\ ~chatgroq_raises
                 THEN Handle(chatgroq_calls + 1, key) ELSE None,
         chatgroq |-> IF initialize THEN 1 ELSE 0]

\* LLMConfig(api_key), with _initialize_llm: the object built, and whether
\* ChatGroq(...) was called; chatgroq_raises says whether that call raises
LLMConfig(api_key, chatgroq_raises) ==
    LET key == IF Truthy(api_key) THEN api_key ELSE env_key
        initialize == groq_available /\ Truthy(key)
    IN  [api_key |-> key,
         llm |-> IF initialize /\ ~chatgroq_raises
                 THEN Handle(chatgroq_calls + 1, key) ELSE None,
         chatgroq |-> IF initialize THEN 1 ELSE 0]

\* get_llm_instance building a new LLMConfig on every call
get_llm_instance_always_new(api_key, chatgroq_raises) ==
    LET built == LLMConfig(api_key, chatgroq_raises)
    IN  [config |-> <<[api_key |-> built.api_key, llm |-> built.llm]>>,
         built |-> 1,
         chatgroq |-> built.chatgroq,
         raised |-> (built.chatgroq = 1 /\ chatgroq_raises),
         ret |-> built.llm]

\* get_llm_instance(api_key): the new value of _llm_config, how many
\* LLMConfig and ChatGroq objects the call built, whether ChatGroq(...)
\* raised inside _initialize_llm (which catches it), and what it returns
get_llm_instance(api_key, chatgroq_raises) ==
    IF _llm_config = <<>>
    THEN LET built == LLMConfig(api_key, chatgroq_raises)
         IN  [config |-> <<[api_key |-> built.api_key, llm |-> built.llm]>>,
              built |-> 1,
              chatgroq |-> built.chatgroq,
              raised |-> (built.chatgroq = 1 /\ chatgroq_raises),
              ret |-> built.llm]
    ELSE [config |-> _llm_config,
          built |-> 0,
          chatgroq |-> 0,
          raised |-> FALSE,
          ret |-> _llm_config[1].llm]

-----------------------------------------------------------------------------
(* States outside a running program part *)

LlmIdle ==
    /\ groq_available = TRUE
    /\ env_key = None
    /\ _llm_config = <<>>
    /\ configs_built = 0
    /\ chatgroq_calls = 0
    /\ llm_returns = <<>>
    /\ app = <<>>

ChatIdle ==
    /\ chat_pc = "not_started"
    /\ line = <<>>
    /\ lines_read = 0
    /\ reports = [process |-> 0, input |-> 0]

ProcLocalsUnset ==
    /\ log = <<>>
    /\ mood = None
    /\ mood_emoji = None
    /\ task_type = None
    /\ memories = <<>>
    /\ response = NoText
    /\ returned = None
    /\ result = <<>>
    /\ error = None

-----------------------------------------------------------------------------
(* _detect_task_type called on its own, over texts built from pieces that   *)
(* carry phrases of every rule, in mixed case, whole and split in two.      *)

ClassifyPieces == {
    <<"W","r","i","t","e"," ","a"," ","P","o","e","m">>,
    <<"T","E","L","L"," ","M","E"," ","A"," ","J","O","K","E">>,
    <<"T","e","l","l"," ","m","e"," ","a"," ","S","t","o","r","y">>,
    <<"L","o","v","e"," ","L","e","t","t","e","r">>,
    <<"w","r","i","t","e"," ","a"," ">>,
    <<"l","e","t","t","e","r">>,
    <<"p","o","e","m">>,
    <<"P","l","a","n"," ","a"," ","D","a","t","e">>,
    <<"G","o","o","d"," ">>,
    <<"M","o","r","n","i","n","g">>,
    <<"n","i","g","h","t">>,
    <<"t","o">>,
    <<"S","o","r","r","y">>,
    <<"M","y"," ","B","a","d">>,
    <<"h","e","l","l","o">>}

ClassifyMessages == {Join(ps) : ps \in SeqsUpTo(ClassifyPieces, MaxPieces)}

InitClassify ==
    /\ LlmIdle /\ ChatIdle /\ ProcLocalsUnset
    /\ message \in ClassifyMessages
    /\ caller = "direct"
    /\ pc = "classify"

ClassifyCall ==
    /\ pc = "classify"
    /\ task_type' = _detect_task_type(message)
    /\ pc' = "classified"
    /\ UNCHANGED <<llmVars, chatVars, message, caller, log, mood, mood_emoji,
                   memories, response, returned, result, error>>

NextClassify == ClassifyCall

SpecClassify == InitClassify /\ [][NextClassify]_vars

-----------------------------------------------------------------------------
(* _handle_task called on its own, with every tag value and texts that      *)
(* carry the words the apology and poem branches look for.                  *)

DispatchPieces == {
    <<"s","o","r","r","y">>,
    <<"S","o","r","r","y">>,
    <<"a","p","o","l","o","g","i","z","e">>,
    <<"a","p","o","l","o">>,
    <<"g","i","z","e">>,
    <<",", " ">>,
    <<"!">>,
    <<" ">>,
    <<"m","y"," ","b","a","d">>,
    <<"I","'","m"," ","s","o","r","r","y",","," ","m","y"," ","b","a","d">>,
    <<"I"," ","M","I","S","S"," ","y","o","u">>,
    <<"T","h","a","n","k"," ","y","o","u">>,
    <<"w","r","i","t","e"," ","a"," ","p","o","e","m">>}

DispatchMessages == {Join(ps) : ps \in SeqsUpTo(DispatchPieces, MaxPieces)}

\* the classifier's eight tags and values it never produces
TagValues == {"poem", "joke", "story", "letter", "date_plan", "good_morning",
              "good_night", "apology", "song", "", "POEM"}

InitDispatch ==
    /\ LlmIdle /\ ChatIdle
    /\ message \in DispatchMessages
    /\ task_type \in TagValues
    /\ mood \in {"happy", "sad"}
    /\ caller = "direct"
    /\ pc = "handle_task"
    /\ log = <<>>
    /\ mood_emoji = None
    /\ memories = <<>>
    /\ response = NoText
    /\ returned = None
    /\ result = <<>>
    /\ error = None

\* _handle_task runs and its collaborator returns
HandleTaskReturn ==
    /\ pc = "handle_task"
    /\ \E ret \in HandleTaskReturns(task_type) :
         /\ log' = Append(log, Logged(HandleTaskCallee(message, task_type, mood),
                                      "returned"))
         /\ response' = _handle_task(message, task_type, mood, ret)
         /\ returned' = ret
    /\ pc' = IF caller = "direct" THEN "handled" ELSE "safety_check"
    /\ UNCHANGED <<llmVars, chatVars, message, caller, mood, mood_emoji, task_type,
                   memories, result, error>>

\* _handle_task runs and its collaborator raises
HandleTaskRaise ==
    /\ pc = "handle_task"
    /\ log' = Append(log, Logged(HandleTaskCallee(message, task_type, mood),
                                 "raised"))
    /\ error' = RaisedBy(HandleTaskCallee(message, task_type, mood))
    /\ pc' = "raised"
    /\ UNCHANGED <<llmVars, chatVars, message, caller, mood, mood_emoji, task_type,
                   memories, response, returned, result>>

NextDispatch == HandleTaskReturn \/ HandleTaskRaise

SpecDispatch == InitDispatch /\ [][NextDispatch]_vars

-----------------------------------------------------------------------------
(* The program: the handle is fetched, HerAI is built, chat() reads lines   *)
(* and runs process_message on each; every collaborator call returns or     *)
(* raises.                                                                  *)

ApiKeys == {None, "", "gsk_arg"}
EnvKeys == {None, "gsk_env"}

ReactiveMoods == {"sad", "stressed", "angry", "romantic"}

\* what memory_agent.retrieve_memories(message, k=2) can return
MemoryResults == {<<>>, << <<"m","1">>, <<"m","2">> >>}

\* what safety_agent.validate_and_fix(text) can return
SafetyResults(text) ==
    {[fixed_text |-> text, fixed_score |-> 100, fixed_safe |-> TRUE],
     [fixed_text |-> <<"f">>, fixed_score |-> 40, fixed_safe |-> FALSE]}

\* lines input() can return
ChatLines == {
    <<>>,
    <<" ", "\t">>,
    <<"q","u","i","t">>,
    <<" ","B","y","e"," ">>,
    <<"E","X","I","T">>,
    <<"e","x","i","t"," ","n","o","w">>,
    <<"I"," ","l","o","v","e"," ","y","o","u">>,
    <<"W","r","i","t","e"," ","a"," ","P","o","e","m">>,
    <<"p","l","a","n"," ","a"," ","d","a","t","e">>,
    <<" ","s","o","r","r","y","!"," ">>}

Terminators == {<<"q","u","i","t">>, <<"e","x","i","t">>, <<"b","y","e">>}

Init ==
    /\ groq_available \in BOOLEAN
    /\ env_key \in EnvKeys
    /\ _llm_config = <<>>
    /\ configs_built = 0
    /\ chatgroq_calls = 0
    /\ llm_returns = <<>>
    /\ app = <<>>
    /\ ChatIdle
    /\ message = <<>>
    /\ caller = None
    /\ pc = "idle"
    /\ ProcLocalsUnset

\* the effect of one get_llm_instance call on the module's state
LlmEffect(api_key, got) ==
    /\ _llm_config' = got.config
    /\ configs_built' = configs_built + got.built
    /\ chatgroq_calls' = chatgroq_calls + got.chatgroq
    /\ llm_returns' = Append(llm_returns, [api_key |-> api_key, ret |-> got.ret,
                                           raised |-> got.raised])

\* the HerAI object __init__ builds around the handle
HerAIObject(llm) ==
    [llm |-> llm, use_llm |-> (llm # None), mood_detector_llm |-> llm,
     romantic_agent_llm |-> llm, surprise_agent_llm |-> llm]

\* get_llm_instance(api_key) called by other code of the process, before
\* HerAI is built
GetLlmInstanceCall ==
    /\ app = <<>>
    /\ Len(llm_returns) < MaxCalls
    /\ \E api_key \in ApiKeys, chatgroq_raises \in BOOLEAN :
         LlmEffect(api_key, get_llm_instance(api_key, chatgroq_raises))
    /\ UNCHANGED <<groq_available, env_key, app, chatVars, procVars>>

\* HerAI(api_key)
HerAIInit ==
    /\ app = <<>>
    /\ \E api_key \in ApiKeys, chatgroq_raises \in BOOLEAN :
         LET got == get_llm_instance(api_key, chatgroq_raises)
         IN  /\ LlmEffect(api_key, got)
             /\ app' = <<HerAIObject(got.ret)>>
    /\ UNCHANGED <<groq_available, env_key, chatVars, procVars>>

\* app.chat() is entered
ChatStart ==
    /\ app # <<>>
    /\ chat_pc = "not_started"
    /\ chat_pc' = "input"
    /\ UNCHANGED <<llmVars, line, lines_read, reports, procVars>>

\* user_input.lower() in ['quit', 'exit', 'bye'], compared as typed
IsTerminator_case_sensitive(user_input) == user_input \in Terminators

\* user_input.lower() in ['quit', 'exit', 'bye']
IsTerminator(user_input) == lower(user_input) \in Terminators

\* input() returns one of lines: an empty one is skipped, a terminator ends
\* the session, any other is handed to process_message
ChatInputFrom(lines) ==
    /\ chat_pc = "input"
    /\ lines_read < MaxLines
    /\ \E raw \in lines :
         LET user_input == strip(raw)
         IN  /\ line' = raw
             /\ IF user_input = <<>>
                THEN /\ chat_pc' = "input"
                     /\ UNCHANGED procVars
                ELSE IF IsTerminator(user_input)
                THEN /\ chat_pc' = "ended_by_terminator"
                     /\ UNCHANGED procVars
                ELSE /\ chat_pc' = "processing"
                     /\ message' = user_input
                     /\ caller' = "chat"
                     /\ pc' = "detect_mood"
                     /\ UNCHANGED <<log, mood, mood_emoji, task_type, memories,
                                    response, returned, result, error>>
    /\ lines_read' = lines_read + 1
    /\ UNCHANGED <<llmVars, reports>>

ChatInput == ChatInputFrom(ChatLines)

\* input() raises (end of input): except Exception prints it, the loop goes on
ChatInputError ==
    /\ chat_pc = "input"
    /\ lines_read < MaxLines
    /\ lines_read' = lines_read + 1
    /\ reports' = [reports EXCEPT !.input = @ + 1]
    /\ UNCHANGED <<llmVars, chat_pc, line, procVars>>

\* Ctrl-C at the prompt or while the line is processed: except
\* KeyboardInterrupt says goodbye and breaks
\* the frame of process_message is gone
FrameDropped ==
    /\ message' = <<>>
    /\ caller' = None
    /\ pc' = "idle"
    /\ log' = <<>>
    /\ mood' = None
    /\ mood_emoji' = None
    /\ task_type' = None
    /\ memories' = <<>>
    /\ response' = NoText
    /\ returned' = None
    /\ result' = <<>>
    /\ error' = None

\* Ctrl-C at the prompt or while the line is processed: the interrupt
\* unwinds process_message, except KeyboardInterrupt says goodbye and breaks.
\* (A return or a raise and the handler of chat() that receives it are
\* taken as one uninterrupted unwinding.)
ChatInterrupt ==
    /\ chat_pc \in {"input", "processing"}
    /\ pc \notin {"returned", "raised"}
    /\ chat_pc' = "ended_by_interrupt"
    /\ FrameDropped
    /\ UNCHANGED <<llmVars, line, lines_read, reports>>

\* process_message returned: chat() prints the reply and loops
ChatDisplay ==
    /\ chat_pc = "processing"
    /\ pc = "returned"
    /\ chat_pc' = "input"
    /\ FrameDropped
    /\ UNCHANGED <<llmVars, line, lines_read, reports>>

\* process_message raised: except Exception prints the error and loops
ChatCatch ==
    /\ chat_pc = "processing"
    /\ pc = "raised"
    /\ chat_pc' = "input"
    /\ reports' = [reports EXCEPT !.process = @ + 1]
    /\ FrameDropped
    /\ UNCHANGED <<llmVars, line, lines_read>>

MoodCall == Call("mood_detector.detect", <<message, app[1].use_llm>>)

\* step 1: self.mood_detector.detect(message, use_llm=self.use_llm) returns
DetectMoodReturn ==
    /\ pc = "detect_mood"
    /\ \E m \in Moods, g \in Glyphs :
         /\ mood' = m
         /\ mood_emoji' = g
    /\ log' = Append(log, Logged(MoodCall, "returned"))
    /\ pc' = "detect_task"
    /\ UNCHANGED <<llmVars, chatVars, message, caller, task_type, memories,
                   response, returned, result, error>>

\* the mood detector failing answered with a default mood
DetectMoodRaise_default_mood ==
    /\ pc = "detect_mood"
    /\ mood' = "neutral"
    /\ mood_emoji' = "glyph_a"
    /\ log' = Append(log, Logged(MoodCall, "raised"))
    /\ pc' = "detect_task"
    /\ UNCHANGED <<llmVars, chatVars, message, caller, task_type, memories,
                   response, returned, result, error>>

\* step 1: the mood detector raises
DetectMoodRaise ==
    /\ pc = "detect_mood"
    /\ log' = Append(log, Logged(MoodCall, "raised"))
    /\ error' = RaisedBy(MoodCall)
    /\ pc' = "raised"
    /\ UNCHANGED <<llmVars, chatVars, message, caller, mood, mood_emoji, task_type,
                   memories, response, returned, result>>

\* the branch of process_message that looks up memories whatever the tag
BranchAfterDetection_memory_first(tag, md) ==
    IF md \in ReactiveMoods THEN "retrieve_memories"
    ELSE IF tag # None THEN "handle_task"
    ELSE "generate_message"

\* if task_type: ... else: memories = []; if mood in [...]: ...
BranchAfterDetection(tag, md) ==
    IF tag # None THEN "handle_task"
    ELSE IF md \in ReactiveMoods THEN "retrieve_memories"
    ELSE "generate_message"

\* step 2: task_type = self._detect_task_type(message), and the branch taken
DetectTask ==
    /\ pc = "detect_task"
    /\ task_type' = _detect_task_type(message)
    /\ memories' = <<>>
    /\ pc' = BranchAfterDetection(_detect_task_type(message), mood)
    /\ UNCHANGED <<llmVars, chatVars, message, caller, log, mood, mood_emoji,
                   response, returned, result, error>>

MemoryCall == Call("memory_agent.retrieve_memories", <<message, 2>>)

\* self.memory_agent.retrieve_memories(message, k=2) returns
RetrieveMemoriesReturn ==
    /\ pc = "retrieve_memories"
    /\ \E found \in MemoryResults : memories' = found
    /\ log' = Append(log, Logged(MemoryCall, "returned"))
    /\ pc' = "generate_message"
    /\ UNCHANGED <<llmVars, chatVars, message, caller, mood, mood_emoji, task_type,
                   response, returned, result, error>>

\* the memory store raises
RetrieveMemoriesRaise ==
    /\ pc = "retrieve_memories"
    /\ log' = Append(log, Logged(MemoryCall, "raised"))
    /\ error' = RaisedBy(MemoryCall)
    /\ pc' = "raised"
    /\ UNCHANGED <<llmVars, chatVars, message, caller, mood, mood_emoji, task_type,
                   memories, response, returned, result>>

GenerateCall == Call("romantic_agent.generate_message", <<mood, message, memories>>)

\* step 3: self.romantic_agent.generate_message(...) returns
GenerateMessageReturn ==
    /\ pc = "generate_message"
    /\ \E text \in GeneratedTexts :
         /\ response' = text
         /\ returned' = text
    /\ log' = Append(log, Logged(GenerateCall, "returned"))
    /\ pc' = "safety_check"
    /\ UNCHANGED <<llmVars, chatVars, message, caller, mood, mood_emoji, task_type,
                   memories, result, error>>

\* the response generator raises
GenerateMessageRaise ==
    /\ pc = "generate_message"
    /\ log' = Append(log, Logged(GenerateCall, "raised"))
    /\ error' = RaisedBy(GenerateCall)
    /\ pc' = "raised"
    /\ UNCHANGED <<llmVars, chatVars, message, caller, mood, mood_emoji, task_type,
                   memories, response, returned, result>>

SafetyCall == Call("safety_agent.validate_and_fix", <<response>>)

\* the result record process_message builds from the safety result
ResultRecord(safety_result) ==
    [response |-> safety_result.fixed_text,
     mood |-> mood,
     mood_emoji |-> mood_emoji,
     safe |-> safety_result.fixed_safe,
     safety_score |-> safety_result.fixed_score,
     task_type |-> task_type]

\* process_message returning the draft of a task without the safety check
SafetyCheckReturn_tasks_unchecked ==
    /\ pc = "safety_check"
    /\ IF task_type # None
       THEN /\ result' = <<ResultRecord([fixed_text |-> response, fixed_score |-> 100,
                                         fixed_safe |-> TRUE])>>
            /\ UNCHANGED log
       ELSE /\ \E safety_result \in SafetyResults(response) :
                 result' = <<ResultRecord(safety_result)>>
            /\ log' = Append(log, Logged(SafetyCall, "returned"))
    /\ pc' = "returned"
    /\ UNCHANGED <<llmVars, chatVars, message, caller, mood, mood_emoji, task_type,
                   memories, response, returned, error>>

\* step 4: self.safety_agent.validate_and_fix(response) returns, and
\* process_message returns its result record
SafetyCheckReturn ==
    /\ pc = "safety_check"
    /\ \E safety_result \in SafetyResults(response) :
         result' = <<ResultRecord(safety_result)>>
    /\ log' = Append(log, Logged(SafetyCall, "returned"))
    /\ pc' = "returned"
    /\ UNCHANGED <<llmVars, chatVars, message, caller, mood, mood_emoji, task_type,
                   memories, response, returned, error>>

\* the safety filter raises
SafetyCheckRaise ==
    /\ pc = "safety_check"
    /\ log' = Append(log, Logged(SafetyCall, "raised"))
    /\ error' = RaisedBy(SafetyCall)
    /\ pc' = "raised"
    /\ UNCHANGED <<llmVars, chatVars, message, caller, mood, mood_emoji, task_type,
                   memories, response, returned, result>>

Next ==
    \/ HerAIInit
    \/ ChatStart
    \/ ChatInput
    \/ ChatInputError
    \/ ChatInterrupt
    \/ ChatDisplay
    \/ ChatCatch
    \/ DetectMoodReturn
    \/ DetectMoodRaise
    \/ DetectTask
    \/ HandleTaskReturn
    \/ HandleTaskRaise
    \/ RetrieveMemoriesReturn
    \/ RetrieveMemoriesRaise
    \/ GenerateMessageReturn
    \/ GenerateMessageRaise
    \/ SafetyCheckReturn
    \/ SafetyCheckRaise

Spec == Init /\ [][Next]_vars

-----------------------------------------------------------------------------
(* The same program in a process whose other code also calls               *)
(* get_llm_instance, before HerAI is built.                                 *)

ShortChatLines == {
    <<"I"," ","l","o","v","e"," ","y","o","u">>,
    <<"W","r","i","t","e"," ","a"," ","P","o","e","m">>}

ChatInputShort == ChatInputFrom(ShortChatLines)

NextLLM ==
    \/ GetLlmInstanceCall
    \/ HerAIInit
    \/ ChatStart
    \/ ChatInputShort
    \/ ChatInputError
    \/ ChatInterrupt
    \/ ChatDisplay
    \/ ChatCatch
    \/ DetectMoodReturn
    \/ DetectMoodRaise
    \/ DetectTask
    \/ HandleTaskReturn
    \/ HandleTaskRaise
    \/ RetrieveMemoriesReturn
    \/ RetrieveMemoriesRaise
    \/ GenerateMessageReturn
    \/ GenerateMessageRaise
    \/ SafetyCheckReturn
    \/ SafetyCheckRaise

SpecLLM == Init /\ [][NextLLM]_vars

-----------------------------------------------------------------------------
(* Claims about _detect_task_type *)

RuleOrder == <<"poem", "joke", "story", "letter", "date_plan", "good_morning",
               "good_night", "apology">>

PhrasesOf(tag) ==
    CASE tag = "poem" -> PoemPhrases
      [] tag = "joke" -> JokePhrases
      [] tag = "story" -> StoryPhrases
      [] tag = "letter" -> LetterPhrases
      [] tag = "date_plan" -> DatePlanPhrases
      [] tag = "good_morning" -> GoodMorningPhrases
      [] tag = "good_night" -> GoodNightPhrases
      [] tag = "apology" -> ApologyPhrases

\* rule i has a phrase that occurs in the lower-cased text
RuleMatches(i, msg) ==
    \E phrase \in PhrasesOf(RuleOrder[i]) : Contains(phrase, lower(msg))

\* C1: _detect_task_type returns the tag of the first rule, in the order
\* poem, joke, story, letter, date_plan, good_morning, good_night, apology,
\* that has a phrase occurring in the lower-cased message, and None exactly
\* when no rule has one. So a message matching two rules gets the earlier
\* rule's tag and a message matching one rule gets that rule's tag.
C1_FirstMatchingRule ==
    pc = "classified" =>
        /\ \A i \in 1..Len(RuleOrder) :
             (task_type = RuleOrder[i]) <=>
                 (/\ RuleMatches(i, message)
                  /\ \A j \in 1..(i - 1) : ~RuleMatches(j, message))
        /\ (task_type = None) <=>
               (\A i \in 1..Len(RuleOrder) : ~RuleMatches(i, message))
        /\ \A i, j \in 1..Len(RuleOrder) :
             (i < j /\ RuleMatches(i, message) /\ RuleMatches(j, message))
                 => task_type \in {RuleOrder[k] : k \in 1..i}

\* a mixed-case message matching both good_morning and good_night is
\* classified good_morning
C1_Witness ==
    /\ pc = "classified"
    /\ message # lower(message)
    /\ RuleMatches(6, message)
    /\ RuleMatches(7, message)
    /\ task_type = "good_morning"

-----------------------------------------------------------------------------
(* Claims about _handle_task *)

Handled == pc \in {"handled", "raised"}

ExpectedGenerator(tag) ==
    CASE tag = "poem" -> "romantic_agent.generate_poem"
      [] tag = "joke" -> "romantic_agent.generate_joke_about_yamraj"
      [] tag = "date_plan" -> "surprise_agent.plan_virtual_date"
      [] tag = "good_morning" -> "romantic_agent.generate_good_morning"
      [] tag = "good_night" -> "romantic_agent.generate_good_night"
      [] tag = "apology" -> "romantic_agent.generate_apology"
      [] OTHER -> "romantic_agent.handle_task"

\* C8: for every tag value _handle_task makes exactly one generator call,
\* the one its tag selects (joke with the raw message, the greetings with no
\* arguments, every unmapped tag, story and letter included, the generic
\* handler with the raw message and the tag), and an error comes out of it
\* only when that generator raised.
C8_DispatchTable ==
    Handled =>
        /\ Len(log) = 1
        /\ log[1].callee = ExpectedGenerator(task_type)
        /\ task_type = "joke" => log[1].args = <<message>>
        /\ task_type = "date_plan" => log[1].args = <<message>>
        /\ task_type \in {"good_morning", "good_night"} => log[1].args = <<>>
        /\ task_type \notin {"poem", "joke", "date_plan", "good_morning",
                             "good_night", "apology"}
               => log[1].args = <<message, task_type>>
        /\ pc = "raised" <=> error # None
        /\ pc = "raised" => error = "raised by " \o ExpectedGenerator(task_type)

\* the classifier's story tag reaches the generic handler
C8_Witness ==
    /\ pc = "handled"
    /\ task_type = "story"
    /\ log = <<Logged(Call("romantic_agent.handle_task", <<message, "story">>),
                      "returned")>>
    /\ response = returned

\* the positions of s covered by an occurrence of w
Covered(s, w) ==
    {k \in 1..Len(s) :
        \E i \in 1..(Len(s) - Len(w) + 1) :
            /\ SubSeq(s, i, i + Len(w) - 1) = w
            /\ i <= k /\ k <= i + Len(w) - 1}

\* s with every occurrence of w taken out
Without(s, w) ==
    LET keep == (1..Len(s)) \ Covered(s, w)
        at(j) == CHOOSE k \in keep : Cardinality({x \in keep : x < k}) = j - 1
    IN  [j \in 1..Cardinality(keep) |-> s[at(j)]]

\* t is s less its longest prefix and suffix made of characters of chars
IsTrimOf(t, s, chars) ==
    \E a \in 0..Len(s) :
        /\ a + Len(t) <= Len(s)
        /\ SubSeq(s, a + 1, a + Len(t)) = t
        /\ \A k \in 1..a : s[k] \in chars
        /\ \A k \in (a + Len(t) + 1)..Len(s) : s[k] \in chars
        /\ t # <<>> => (t[1] \notin chars /\ t[Len(t)] \notin chars)

CountOf(s, chars) == Cardinality({k \in 1..Len(s) : s[k] \in chars})

ApologyWordsRemoved(msg) ==
    Without(Without(msg, <<"s","o","r","r","y">>),
            <<"a","p","o","l","o","g","i","z","e">>)

\* the context the apology generator was given
GivenContext == log[1].args[1]

\* C9, as amended: the apology generator is given the message with every
\* occurrence of "sorry" taken out, then every occurrence of "apologize" in
\* what is left taken out, then the surrounding whitespace trimmed;
\* punctuation is kept, at the ends of the context too.
C9_ApologyContext ==
    (Handled /\ task_type = "apology") =>
        /\ IsTrimOf(GivenContext, ApologyWordsRemoved(message), Whitespace)
        /\ CountOf(GivenContext, Punctuation) = CountOf(message, Punctuation)

\* C9, as stated: the context has the words taken out and the surrounding
\* punctuation and whitespace trimmed.
C9_AsStated ==
    (Handled /\ task_type = "apology" /\ _detect_task_type(message) = "apology") =>
        IsTrimOf(GivenContext, ApologyWordsRemoved(message),
                 Whitespace \cup Punctuation)

\* "I'm sorry, my bad" reaches the apology generator as "I'm , my bad"
C9_Witness ==
    /\ pc = "handled"
    /\ task_type = "apology"
    /\ message = <<"I","'","m"," ","s","o","r","r","y",","," ","m","y"," ","b","a","d">>
    /\ GivenContext = <<"I","'","m"," ",","," ","m","y"," ","b","a","d">>

\* the line of step i of a plan
StepLine(steps, i) == <<Digits[i + 1], ".", " ">> \o steps[i] \o <<"\n">>

ExpectedRender(plan) ==
    plan.title \o <<"\n", "\n">> \o plan.description \o <<"\n", "\n">>
    \o <<"H","e","r","e","'","s"," ","h","o","w"," ","w","e"," ","c","a","n"," ","d","o"," ","i","t",":","\n">>
    \o Join([i \in 1..Len(plan.steps) |-> StepLine(plan.steps, i)])
    \o (IF "suggestions" \in DOMAIN plan /\ Len(plan.suggestions) > 0
        THEN <<"\n", TipMarker, " ", "T", "i", "p", ":", " ">> \o plan.suggestions[1]
        ELSE <<>>)

\* C10: the date_plan branch returns the title, a blank line, the
\* description, a blank line, "Here's how we can do it:", each step on its
\* own line after its 1-based index and ". ", and, when the plan has a
\* non-empty suggestions list, a blank line and a tip line with the first
\* suggestion only; with no or empty suggestions nothing follows the steps.
\* Steps [A, B] and suggestions [S] give exactly
\* "T\n\nD\n\nHere's how we can do it:\n1. A\n2. B\n\n<marker> Tip: S".
C10_DatePlanRendering ==
    (pc = "handled" /\ task_type = "date_plan") =>
        /\ response = ExpectedRender(returned)
        /\ (/\ returned.steps = << <<"A">>, <<"B">> >>
            /\ "suggestions" \in DOMAIN returned
            /\ returned.suggestions = << <<"S">> >>)
               => response =
                    <<"T","\n","\n","D","\n","\n",
                      "H","e","r","e","'","s"," ","h","o","w"," ","w","e"," ","c","a","n"," ","d","o"," ","i","t",":","\n",
                      "1","."," ","A","\n","2","."," ","B","\n",
                      "\n",TipMarker," ","T","i","p",":"," ","S">>

\* a two-step plan with two suggestions is rendered with the first one
C10_Witness ==
    /\ pc = "handled"
    /\ task_type = "date_plan"
    /\ returned.steps = << <<"A">>, <<"B">> >>
    /\ "suggestions" \in DOMAIN returned
    /\ returned.suggestions = << <<"S">>, <<"U">> >>
    /\ response = ExpectedRender(returned)

-----------------------------------------------------------------------------
(* Claims about process_message *)

MoodDetector == "mood_detector.detect"
MemoryStore == "memory_agent.retrieve_memories"
ResponseGenerator == "romantic_agent.generate_message"
SafetyFilter == "safety_agent.validate_and_fix"
TaskGenerators == {"romantic_agent.generate_poem",
                   "romantic_agent.generate_joke_about_yamraj",
                   "surprise_agent.plan_virtual_date",
                   "romantic_agent.generate_good_morning",
                   "romantic_agent.generate_good_night",
                   "romantic_agent.generate_apology",
                   "romantic_agent.handle_task"}

\* where in the log the calls of these collaborators are
CallsOf(callees) == {i \in DOMAIN log : log[i].callee \in callees}

\* C2: in a process_message call that returns a result the mood classifier
\* is called exactly once and first, the safety filter exactly once and
\* last, on the draft, and exactly one of the two draft-producing branches
\* (a task generator, or the response generator) has run, just before it.
C2_CallOrder ==
    (caller = "chat" /\ pc = "returned") =>
        /\ result # <<>>
        /\ CallsOf({MoodDetector}) = {1}
        /\ CallsOf({SafetyFilter}) = {Len(log)}
        /\ log[Len(log)].args = <<response>>
        /\ CallsOf(TaskGenerators \cup {ResponseGenerator}) = {Len(log) - 1}
        /\ (CallsOf(TaskGenerators) # {}) <=> (task_type # None)
        /\ (CallsOf({ResponseGenerator}) # {}) <=> (task_type = None)

\* a poem request answered: mood classifier, poem generator, safety filter
C2_Witness ==
    /\ caller = "chat"
    /\ pc = "returned"
    /\ task_type = "poem"
    /\ Len(log) = 3
    /\ log[2].callee = "romantic_agent.generate_poem"
    /\ result[1].task_type = "poem"

\* the pipeline is past its branch: a draft was asked for, or it returned
DraftAskedFor ==
    \/ CallsOf(TaskGenerators \cup {ResponseGenerator}) # {}
    \/ pc = "returned"

\* C3: the memory store is called, once and with k = 2, exactly when no task
\* tag was detected and the mood is sad, stressed, angry or romantic; with a
\* task tag it is never called, and with no task and another mood the
\* response generator is given an empty memory list.
C3_MemoryRetrieval ==
    caller = "chat" =>
        /\ Cardinality(CallsOf({MemoryStore})) <= 1
        /\ \A i \in CallsOf({MemoryStore}) :
             /\ log[i].args = <<message, 2>>
             /\ task_type = None
             /\ mood \in ReactiveMoods
        /\ task_type # None => CallsOf({MemoryStore}) = {}
        /\ DraftAskedFor =>
             ((CallsOf({MemoryStore}) # {}) <=>
                  (task_type = None /\ mood \in ReactiveMoods))
        /\ \A i \in CallsOf({ResponseGenerator}) :
             /\ log[i].args[1] = mood
             /\ log[i].args[2] = message
             /\ log[i].args[3] = memories
             /\ mood \notin ReactiveMoods => log[i].args[3] = <<>>

\* a romantic message with no task: the memory store was asked for 2
\* memories before the reply was generated
C3_Witness ==
    /\ caller = "chat"
    /\ pc = "returned"
    /\ task_type = None
    /\ mood = "romantic"
    /\ CallsOf({MemoryStore}) = {2}
    /\ CallsOf({ResponseGenerator}) = {3}
    /\ log[3].args[3] # <<>>

C4_Failed ==
    \A i \in DOMAIN log :
        log[i].outcome = "raised" =>
            /\ i = Len(log)
            /\ pc = "raised"
            /\ error = RaisedBy(log[i])
            /\ result = <<>>
            /\ \A j \in 1..(i - 1) : log[j].callee # log[i].callee

\* C4: when a collaborator call of process_message raises, nothing is
\* called after it, it is not called again, no result record exists, and
\* the next thing to happen is the caller receiving that error.
C4_ErrorPropagates ==
    /\ [](caller = "chat" => C4_Failed)
    /\ [][(caller = "chat" /\ pc = "raised") =>
             (/\ pc' = "idle"
              /\ result' = <<>>
              /\ reports'.process = reports.process + 1)]_vars

\* the safety filter raised on a finished draft: no result
C4_Witness ==
    /\ caller = "chat"
    /\ pc = "raised"
    /\ Len(log) = 3
    /\ log[3].callee = SafetyFilter
    /\ log[3].outcome = "raised"
    /\ response # NoText
    /\ result = <<>>

-----------------------------------------------------------------------------
(* Claims about chat() *)

\* a step in which input() returned a line
LineRead == lines_read' = lines_read + 1 /\ reports' = reports

\* C5: an error raised while a line is processed is caught and reported and
\* the loop goes back to reading; the session ends only on a line that,
\* trimmed and lower-cased, is quit, exit or bye, or on a keyboard
\* interrupt; a line empty after trimming never starts process_message.
C5_ChatLoop ==
    [][/\ (chat_pc = "processing" /\ pc = "raised") =>
             (/\ chat_pc' = "input"
              /\ reports'.process = reports.process + 1
              /\ lines_read' = lines_read)
       /\ (chat_pc \in {"input", "processing"}
              /\ chat_pc' \notin {"input", "processing"}) =>
             \/ chat_pc' = "ended_by_interrupt"
             \/ LineRead /\ lower(strip(line')) \in Terminators
       /\ LineRead =>
             /\ (chat_pc' \notin {"input", "processing"})
                    <=> (lower(strip(line')) \in Terminators)
             /\ (pc' = "detect_mood")
                    <=> (strip(line') # <<>> /\ lower(strip(line')) \notin Terminators)
             /\ strip(line') = <<>> =>
                    (chat_pc' = "input" /\ pc' = "idle" /\ log' = <<>>)
             /\ pc' = "detect_mood" => message' = strip(line')
      ]_vars

\* after an error of process_message was reported, the next line is being
\* processed
C5_Witness ==
    /\ chat_pc = "processing"
    /\ reports.process = 1
    /\ lines_read = 2
    /\ pc = "detect_mood"

-----------------------------------------------------------------------------
(* Claims about get_llm_instance *)

\* C6: over any sequence of get_llm_instance calls the LLMConfig, and its
\* ChatGroq handle, is built at most once, by the first call; every later
\* call returns what the first returned, whatever api_key it is given.
C6_BuiltOnce ==
    /\ configs_built <= 1
    /\ chatgroq_calls <= 1
    /\ (llm_returns = <<>>) <=> (_llm_config = <<>>)
    /\ (llm_returns = <<>>) <=> (configs_built = 0)
    /\ \A i \in DOMAIN llm_returns :
         /\ llm_returns[i].ret = llm_returns[1].ret
         /\ llm_returns[i].ret = _llm_config[1].llm
         /\ i > 1 => ~llm_returns[i].raised

\* a second call, with another api_key, got the handle the first one built
C6_Witness ==
    /\ Len(llm_returns) >= 2
    /\ llm_returns[1].api_key = "gsk_arg"
    /\ llm_returns[2].api_key = None
    /\ llm_returns[1].ret # None
    /\ llm_returns[2].ret = llm_returns[1].ret

\* no credential, no Groq library, or ChatGroq(...) raised, in call i
NoLlmFor(i) ==
    \/ ~Truthy(llm_returns[i].api_key) /\ ~Truthy(env_key)
    \/ ~groq_available
    \/ llm_returns[i].raised

InFallbackMode ==
    /\ \A i \in DOMAIN llm_returns : llm_returns[i].ret = None
    /\ app # <<>> =>
         /\ app[1].use_llm = FALSE
         /\ app[1].llm = None
         /\ app[1].mood_detector_llm = None
         /\ app[1].romantic_agent_llm = None
         /\ app[1].surprise_agent_llm = None
         /\ \A i \in CallsOf({MoodDetector}) : log[i].args[2] = FALSE

\* C7, as amended: if the call that builds the process-wide LLMConfig (the
\* first get_llm_instance call) has no credential (no api_key argument and
\* no GROQ_API_KEY), or the Groq library is missing, or building the client
\* raises, then that call and every later one returns None without raising,
\* HerAI is built with use_llm false and None handles in its collaborators,
\* and every process_message call gives the mood classifier use_llm false.
C7_FallbackMode ==
    (llm_returns # <<>> /\ NoLlmFor(1)) => InFallbackMode

\* C7, as stated: the same of any get_llm_instance call made with no
\* credential available, the one inside HerAI(...) included.
C7_AsStated ==
    \A i \in DOMAIN llm_returns :
        NoLlmFor(i) =>
            /\ llm_returns[i].ret = None
            /\ (i = Len(llm_returns) /\ app # <<>>) => InFallbackMode

\* ChatGroq(...) raised while HerAI was built; a message was still answered,
\* with the mood classifier told use_llm = False
C7_Witness ==
    /\ Len(llm_returns) = 1
    /\ llm_returns[1].raised
    /\ app # <<>>
    /\ ~app[1].use_llm
    /\ pc = "returned"
    /\ log[1].callee = MoodDetector
    /\ log[1].args[2] = FALSE
    /\ result # <<>>

=============================================================================
